---- MODULE Spec2Model ----
(***************************************************************************)
(* Window lifecycle, event pump and presentation loop of src/main.rs:      *)
(* X11Window::new / show / poll / Drop and fn main.                        *)
(*                                                                         *)
(* The program is single threaded.  pc is the position of the thread, the  *)
(* display server is the only other party: it owns the window, the event   *)
(* queue of the connection and may queue an event at any moment.           *)
(***************************************************************************)
EXTENDS Integers, Sequences, FiniteSets, TLC

\* ------------------------------------------------------------- bounds
\* Events the display server queues during one run.
MaxArrivals == 2
\* Length of the titles a caller other than main passes to X11Window::new.
MaxTitleLen == 2
\* Calls of show a caller other than main makes on one window.
MaxShows == 2

\* ------------------------------------------------------------- values
\* ptr::null() as *mut Display.
NullDisplay == 0
\* The connection XOpenDisplay returns when it succeeds.
DisplayPtr == 1
\* The identifier XCreateWindow returns.
WindowId == 7
\* XDefaultScreen of the connection.
DefaultScreen == 0
\* The format main requires of a client message.
LongFormat == 32
\* A client message whose data is bytes, not longs.
ByteFormat == 8

\* The server's atom table: XInternAtom(name, only_if_exists = False).
XInternAtom(name) ==
    CASE name = "WM_PROTOCOLS"     -> 11
      [] name = "WM_DELETE_WINDOW" -> 12
      [] OTHER                     -> 13

\* "hello-sailor" as bytes.
MainTitle == <<104, 101, 108, 108, 111, 45, 115, 97, 105, 108, 111, 114>>

\* Bytes of the titles other callers pass: NUL and 't'.
TitleBytes == {0, 116}

RECURSIVE SeqsUpTo(_, _)
SeqsUpTo(S, n) ==
    IF n = 0 THEN {<<>>}
    ELSE LET shorter == SeqsUpTo(S, n - 1)
         IN  shorter \cup {Append(s, x) : s \in shorter, x \in S}

Titles == SeqsUpTo(TitleBytes, MaxTitleLen)

\* CString::new(title): Err(NulError) when a byte of title is 0.
CStringNewIsErr(t) == \E i \in 1..Len(t) : t[i] = 0

\* ------------------------------------------------------------- events
ClientMessageEv(mt, fmt, d0) ==
    [type |-> "ClientMessage", message_type |-> mt, format |-> fmt, data0 |-> d0]

MotionEv ==
    [type |-> "MotionNotify", message_type |-> 0, format |-> 0, data0 |-> 0]

\* The WM's close request for the window.
CloseEv ==
    ClientMessageEv(XInternAtom("WM_PROTOCOLS"), LongFormat, XInternAtom("WM_DELETE_WINDOW"))

\* The events the server queues in this model.
ServerEvents ==
    { CloseEv,
      ClientMessageEv(XInternAtom("WM_PROTOCOLS"), ByteFormat, XInternAtom("WM_DELETE_WINDOW")),
      ClientMessageEv(XInternAtom("WM_PROTOCOLS"), LongFormat, XInternAtom("_NET_WM_PING")),
      ClientMessageEv(XInternAtom("_NET_WM_PING"), LongFormat, XInternAtom("WM_DELETE_WINDOW")),
      MotionEv }

\* The XEvent buffer of main before XNextEvent first writes it
\* (mem::MaybeUninit::uninit().assume_init()).
Uninit == [type |-> "uninit", message_type |-> 0, format |-> 0, data0 |-> 0]

\* What a read of the buffer yields: its content, or any bit pattern while it
\* is uninitialised.
ReadEvent(buf) == IF buf = Uninit THEN ServerEvents ELSE {buf}

\* ------------------------------------------------------------- state
VARIABLES
    pc,            \* position of the thread
    caller,        \* "main", or "other": any other user of the public X11Window
    title,         \* the title passed to X11Window::new
    handle,        \* the X11Window value, NoHandle before it is constructed
    locals,        \* owning locals of the caller, in declaration order
    fatal,         \* the panic message, "" while none
    xsrv,          \* server side: connection, window, mapping, protocols, name
    xqueue,        \* events queued on the connection, not yet retrieved
    arrivals,      \* events the server has queued so far
    event,         \* the caller's XEvent buffer
    drained,       \* events XNextEvent returned in the current poll call
    queuedAtCall,  \* xqueue when the current poll call started
    arrivedInPoll, \* an event was queued while the current poll call ran
    frameSubmits,  \* command buffers submitted for the frame held
    shows,         \* calls of show so far
    polled,        \* poll has been called
    acquired,      \* a frame has been acquired
    closeSignals,  \* times the close check broke the loop
    callLog        \* XDestroyWindow / XCloseDisplay calls, in order

cfgVars == <<caller, title>>
pollVars == <<drained, queuedAtCall, arrivedInPoll, polled>>
histVars == <<shows, acquired, closeSignals, callLog>>

vars == <<pc, handle, locals, fatal, xsrv, xqueue, arrivals, event, frameSubmits,
          cfgVars, pollVars, histVars>>

NoHandle ==
    [display |-> NullDisplay, window |-> 0, screen |-> 0,
     wm_protocols |-> 0, wm_delete_window |-> 0]

NoServer ==
    [open |-> FALSE, window |-> FALSE, mapped |-> FALSE, protocols |-> {}, name |-> <<>>]

Last(s) == s[Len(s)]
Front(s) == SubSeq(s, 1, Len(s) - 1)
Without(s, x) == SelectSeq(s, LAMBDA y : y # x)
Owns(x) == \E i \in 1..Len(locals) : locals[i] = x

InitCommon ==
    /\ pc = "new_open"
    /\ handle = NoHandle
    /\ locals = <<>>
    /\ fatal = ""
    /\ xsrv = NoServer
    /\ xqueue = <<>>
    /\ arrivals = 0
    /\ event = Uninit
    /\ drained = <<>>
    /\ queuedAtCall = <<>>
    /\ arrivedInPoll = FALSE
    /\ frameSubmits = 0
    /\ shows = 0
    /\ polled = FALSE
    /\ acquired = FALSE
    /\ closeSignals = 0
    /\ callLog = <<>>

\* fn main: the title is the literal of line 152.
Init ==
    /\ caller = "main"
    /\ title = MainTitle
    /\ InitCommon

\* Any other user of the public type: it opens a window with a title of its
\* own, calls show and poll as it likes, and lets the window go out of scope.
InitOpen ==
    /\ caller = "other"
    /\ title \in Titles
    /\ InitCommon

\* Panic as it would be with panic = "abort": no unwinding, no destructor runs.
PanicAbort(msg) ==
    /\ fatal' = msg
    /\ pc' = "done"

\* panic!/unwrap/expect: unwinding starts in the caller's frame.
Panic(msg) ==
    /\ fatal' = msg
    /\ pc' = "unwind"

\* ------------------------------------------------------------- X11Window::new
\* XOpenDisplay, and the panic when it returns null.
NewOpenDisplay ==
    /\ pc = "new_open"
    /\ \E d \in {NullDisplay, DisplayPtr} :
         IF d = NullDisplay
         THEN /\ Panic("XOpenDisplay failed")
              /\ UNCHANGED xsrv
         ELSE /\ xsrv' = [xsrv EXCEPT !.open = TRUE]
              /\ pc' = "new_create"
              /\ UNCHANGED fatal
    /\ UNCHANGED <<handle, locals, xqueue, arrivals, event, frameSubmits,
                   cfgVars, pollVars, histVars>>

\* XDefaultScreen, XRootWindow, XCreateWindow.
NewCreateWindow ==
    /\ pc = "new_create"
    /\ xsrv' = [xsrv EXCEPT !.window = TRUE]
    /\ pc' = "new_title"
    /\ UNCHANGED <<handle, locals, fatal, xqueue, arrivals, event, frameSubmits,
                   cfgVars, pollVars, histVars>>

\* CString::new(title).unwrap() and XStoreName.
NewStoreName ==
    /\ pc = "new_title"
    /\ IF CStringNewIsErr(title)
       THEN /\ Panic("unwrap on NulError")
            /\ UNCHANGED xsrv
       ELSE /\ xsrv' = [xsrv EXCEPT !.name = title]
            /\ pc' = "new_atoms"
            /\ UNCHANGED fatal
    /\ UNCHANGED <<handle, locals, xqueue, arrivals, event, frameSubmits,
                   cfgVars, pollVars, histVars>>

\* NewHookClose as it would be without the XSetWMProtocols call.
NewHookCloseUnregistered ==
    /\ pc = "new_atoms"
    /\ handle' = [display |-> DisplayPtr, window |-> WindowId,
                  screen |-> DefaultScreen,
                  wm_protocols |-> XInternAtom("WM_PROTOCOLS"),
                  wm_delete_window |-> XInternAtom("WM_DELETE_WINDOW")]
    /\ locals' = <<"window">>
    /\ pc' = IF caller = "main" THEN "show" ELSE "idle"
    /\ UNCHANGED <<fatal, xsrv, xqueue, arrivals, event, frameSubmits,
                   cfgVars, pollVars, histVars>>

\* The two XInternAtom calls, XSetWMProtocols, and the X11Window value
\* returned to the caller, which binds it to its first local.
NewHookClose ==
    /\ pc = "new_atoms"
    /\ LET wm_protocols == XInternAtom("WM_PROTOCOLS")
           wm_delete_window == XInternAtom("WM_DELETE_WINDOW")
       IN  /\ xsrv' = [xsrv EXCEPT !.protocols = {wm_delete_window}]
           /\ handle' = [display |-> DisplayPtr, window |-> WindowId,
                         screen |-> DefaultScreen,
                         wm_protocols |-> wm_protocols,
                         wm_delete_window |-> wm_delete_window]
    /\ locals' = <<"window">>
    /\ pc' = IF caller = "main" THEN "show" ELSE "idle"
    /\ UNCHANGED <<fatal, xqueue, arrivals, event, frameSubmits,
                   cfgVars, pollVars, histVars>>

\* ------------------------------------------------------------- X11Window::show
\* Show as it would be if it stored XMapWindow's status in self.window.
ShowStoresStatus ==
    /\ \/ pc = "show"
       \/ pc = "idle" /\ shows < MaxShows
    /\ xsrv' = [xsrv EXCEPT !.mapped = TRUE]
    /\ handle' = [handle EXCEPT !.window = 1]
    /\ shows' = shows + 1
    /\ pc' = IF caller = "main" THEN "surface" ELSE "idle"
    /\ UNCHANGED <<locals, fatal, xqueue, arrivals, event, frameSubmits,
                   cfgVars, pollVars, acquired, closeSignals, callLog>>

\* XMapWindow(self.display, self.window); nothing of self is assigned.
Show ==
    /\ \/ pc = "show"
       \/ pc = "idle" /\ shows < MaxShows
    /\ xsrv' = [xsrv EXCEPT !.mapped = TRUE]
    /\ shows' = shows + 1
    /\ pc' = IF caller = "main" THEN "surface" ELSE "idle"
    /\ UNCHANGED <<handle, locals, fatal, xqueue, arrivals, event, frameSubmits,
                   cfgVars, pollVars, acquired, closeSignals, callLog>>

\* ------------------------------------------------------------- main: Initializing
\* CreateSurface as it would be if instance and surface were declared in a
\* scope outside the window's, so that they outlive it.
CreateSurfaceOutlivesWindow ==
    /\ pc = "surface"
    /\ locals' = <<"instance", "surface">> \o locals
    /\ pc' = "adapter"
    /\ UNCHANGED <<handle, fatal, xsrv, xqueue, arrivals, event, frameSubmits,
                   cfgVars, pollVars, histVars>>

\* wgpu::Instance::new and instance.create_surface(&window).
CreateSurface ==
    /\ pc = "surface"
    /\ locals' = locals \o <<"instance", "surface">>
    /\ pc' = "adapter"
    /\ UNCHANGED <<handle, fatal, xsrv, xqueue, arrivals, event, frameSubmits,
                   cfgVars, pollVars, histVars>>

\* block_on(instance.request_adapter(..)).expect(..).
RequestAdapter ==
    /\ pc = "adapter"
    /\ \E found \in BOOLEAN :
         IF found
         THEN /\ locals' = Append(locals, "adapter")
              /\ pc' = "device"
              /\ UNCHANGED fatal
         ELSE /\ Panic("Failed to find an appropriate adapter")
              /\ UNCHANGED locals
    /\ UNCHANGED <<handle, xsrv, xqueue, arrivals, event, frameSubmits,
                   cfgVars, pollVars, histVars>>

\* block_on(adapter.request_device(..)).expect(..).
RequestDevice ==
    /\ pc = "device"
    /\ \E created \in BOOLEAN :
         IF created
         THEN /\ locals' = locals \o <<"device", "queue">>
              /\ pc' = "shader"
              /\ UNCHANGED fatal
         ELSE /\ Panic("Failed to create device")
              /\ UNCHANGED locals
    /\ UNCHANGED <<handle, xsrv, xqueue, arrivals, event, frameSubmits,
                   cfgVars, pollVars, histVars>>

\* create_shader_module, create_pipeline_layout, get_supported_formats(..)[0]:
\* the index panics when the backend lists no format.
CreateShader ==
    /\ pc = "shader"
    /\ locals' = locals \o <<"shader", "pipeline_layout">>
    /\ \E nformats \in 0..1 :
         IF nformats = 0
         THEN Panic("index out of bounds")
         ELSE /\ pc' = "pipeline"
              /\ UNCHANGED fatal
    /\ UNCHANGED <<handle, xsrv, xqueue, arrivals, event, frameSubmits,
                   cfgVars, pollVars, histVars>>

\* create_render_pipeline, the SurfaceConfiguration, surface.configure and the
\* declaration of the uninitialised XEvent buffer.
ConfigureSurface ==
    /\ pc = "pipeline"
    /\ locals' = Append(locals, "render_pipeline")
    /\ event' = Uninit
    /\ pc' = "loop"
    /\ UNCHANGED <<handle, fatal, xsrv, xqueue, arrivals, frameSubmits,
                   cfgVars, pollVars, histVars>>

\* ------------------------------------------------------------- X11Window::poll
\* The caller passes its buffer: main at the top of its loop.
PollCall ==
    /\ pc \in {"loop", "idle"}
    /\ pc' = "poll"
    /\ drained' = <<>>
    /\ queuedAtCall' = xqueue
    /\ arrivedInPoll' = FALSE
    /\ polled' = TRUE
    /\ UNCHANGED <<handle, locals, fatal, xsrv, xqueue, arrivals, event,
                   frameSubmits, cfgVars, histVars>>

\* PollNext as it would be if only the first event of a call reached the buffer.
PollNextKeepsFirst ==
    /\ pc = "poll"
    /\ xqueue # <<>>
    /\ event' = IF drained = <<>> THEN Head(xqueue) ELSE event
    /\ xqueue' = Tail(xqueue)
    /\ \E filtered \in BOOLEAN :
         drained' = Append(drained, [ev |-> Head(xqueue), filtered |-> filtered])
    /\ UNCHANGED <<pc, handle, locals, fatal, xsrv, arrivals, frameSubmits,
                   cfgVars, queuedAtCall, arrivedInPoll, polled, histVars>>

\* XPending != 0: XNextEvent writes the head of the queue into the buffer, then
\* XFilterEvent says whether an input method consumed it; either way the loop
\* goes round again (every match arm is empty).
PollNext ==
    /\ pc = "poll"
    /\ xqueue # <<>>
    /\ event' = Head(xqueue)
    /\ xqueue' = Tail(xqueue)
    /\ \E filtered \in BOOLEAN :
         drained' = Append(drained, [ev |-> Head(xqueue), filtered |-> filtered])
    /\ UNCHANGED <<pc, handle, locals, fatal, xsrv, arrivals, frameSubmits,
                   cfgVars, queuedAtCall, arrivedInPoll, polled, histVars>>

\* PollReturn as it would be with `if` for `while`: poll returns after one
\* event although more are queued.
PollReturnAfterOne ==
    /\ pc = "poll"
    /\ xqueue = <<>> \/ drained # <<>>
    /\ pc' = IF caller = "main" THEN "check" ELSE "idle"
    /\ UNCHANGED <<handle, locals, fatal, xsrv, xqueue, arrivals, event,
                   frameSubmits, cfgVars, pollVars, histVars>>

\* XPending == 0: the while loop ends and poll returns.
PollReturn ==
    /\ pc = "poll"
    /\ xqueue = <<>>
    /\ pc' = IF caller = "main" THEN "check" ELSE "idle"
    /\ UNCHANGED <<handle, locals, fatal, xsrv, xqueue, arrivals, event,
                   frameSubmits, cfgVars, pollVars, histVars>>

\* ------------------------------------------------------------- main: Running
\* CloseRequested as it would be with the two atoms mixed up.
CloseRequestedWrongAtom(e, h) ==
    /\ e.type = "ClientMessage"
    /\ e.message_type = h.wm_delete_window
    /\ e.format = LongFormat
    /\ e.data0 = h.wm_protocols

\* The condition under which the match on the buffer breaks the loop.
CloseRequested(e, h) ==
    /\ e.type = "ClientMessage"
    /\ e.message_type = h.wm_protocols
    /\ e.format = LongFormat
    /\ e.data0 = h.wm_delete_window

\* MainCheck as it would be if the close request were noted without `break`.
MainCheckNoBreak ==
    /\ pc = "check"
    /\ \E e \in ReadEvent(event) :
         closeSignals' = IF CloseRequested(e, handle) THEN 1 ELSE closeSignals
    /\ pc' = "acquire"
    /\ UNCHANGED <<handle, locals, fatal, xsrv, xqueue, arrivals, event,
                   frameSubmits, cfgVars, pollVars, shows, acquired, callLog>>

\* match event.get_type() { ClientMessage => .. break .. , _ => () }.
MainCheck ==
    /\ pc = "check"
    /\ \E e \in ReadEvent(event) :
         IF CloseRequested(e, handle)
         THEN /\ pc' = "unwind"
              /\ closeSignals' = closeSignals + 1
         ELSE /\ pc' = "acquire"
              /\ UNCHANGED closeSignals
    /\ UNCHANGED <<handle, locals, fatal, xsrv, xqueue, arrivals, event,
                   frameSubmits, cfgVars, pollVars, shows, acquired, callLog>>

\* AcquireFrame as it would be if a failure were noted and the loop went on.
AcquireFrameRetries ==
    /\ pc = "acquire"
    /\ \E ok \in BOOLEAN :
         IF ok
         THEN /\ locals' = Append(locals, "frame")
              /\ frameSubmits' = 0
              /\ acquired' = TRUE
              /\ pc' = "view"
              /\ UNCHANGED fatal
         ELSE /\ fatal' = "Failed to acquire next swap chain texture"
              /\ pc' = "loop"
              /\ UNCHANGED <<locals, frameSubmits, acquired>>
    /\ UNCHANGED <<handle, xsrv, xqueue, arrivals, event, cfgVars, pollVars,
                   shows, closeSignals, callLog>>

\* surface.get_current_texture().expect(..).
AcquireFrame ==
    /\ pc = "acquire"
    /\ \E ok \in BOOLEAN :
         IF ok
         THEN /\ locals' = Append(locals, "frame")
              /\ frameSubmits' = 0
              /\ acquired' = TRUE
              /\ pc' = "view"
              /\ UNCHANGED fatal
         ELSE /\ Panic("Failed to acquire next swap chain texture")
              /\ UNCHANGED <<locals, frameSubmits, acquired>>
    /\ UNCHANGED <<handle, xsrv, xqueue, arrivals, event, cfgVars, pollVars,
                   shows, closeSignals, callLog>>

\* frame.texture.create_view(..).
CreateView ==
    /\ pc = "view"
    /\ locals' = Append(locals, "view")
    /\ pc' = "submit"
    /\ UNCHANGED <<handle, fatal, xsrv, xqueue, arrivals, event, frameSubmits,
                   cfgVars, pollVars, histVars>>

\* The encoder, the render pass and queue.submit(Some(encoder.finish())).
SubmitFrame ==
    /\ pc = "submit"
    /\ frameSubmits' = frameSubmits + 1
    /\ pc' = "drop_view"
    /\ UNCHANGED <<handle, locals, fatal, xsrv, xqueue, arrivals, event,
                   cfgVars, pollVars, histVars>>

\* DropView as it would be with the two drops in the other order: the frame
\* goes first, the view of it is still alive.
DropViewDropsFrame ==
    /\ pc = "drop_view"
    /\ locals' = Without(locals, "frame")
    /\ pc' = "drop_frame"
    /\ UNCHANGED <<handle, fatal, xsrv, xqueue, arrivals, event, frameSubmits,
                   cfgVars, pollVars, histVars>>

\* drop(view).
DropView ==
    /\ pc = "drop_view"
    /\ locals' = Without(locals, "view")
    /\ pc' = "drop_frame"
    /\ UNCHANGED <<handle, fatal, xsrv, xqueue, arrivals, event, frameSubmits,
                   cfgVars, pollVars, histVars>>

\* drop(frame), and back to the top of the loop.
DropFrame ==
    /\ pc = "drop_frame"
    /\ locals' = Without(locals, "frame")
    /\ pc' = "loop"
    /\ UNCHANGED <<handle, fatal, xsrv, xqueue, arrivals, event, frameSubmits,
                   cfgVars, pollVars, histVars>>

\* ------------------------------------------------------------- scope exit
\* A caller other than main is done with its window.
Return ==
    /\ pc = "idle"
    /\ pc' = "unwind"
    /\ UNCHANGED <<handle, locals, fatal, xsrv, xqueue, arrivals, event,
                   frameSubmits, cfgVars, pollVars, histVars>>

\* Leaving the caller's scope, by falling off its end or by unwinding, drops
\* the owning locals in reverse order of declaration.
DropLocal ==
    /\ pc = "unwind"
    /\ locals # <<>>
    /\ Last(locals) # "window"
    /\ locals' = Front(locals)
    /\ UNCHANGED <<pc, handle, fatal, xsrv, xqueue, arrivals, event,
                   frameSubmits, cfgVars, pollVars, histVars>>

\* DropWindow as it would be with the two calls in the other order.
DropWindowClosesFirst ==
    /\ pc = "unwind"
    /\ locals # <<>>
    /\ Last(locals) = "window"
    /\ locals' = Front(locals)
    /\ callLog' = callLog \o <<"XCloseDisplay", "XDestroyWindow">>
    /\ xsrv' = [xsrv EXCEPT !.window = FALSE, !.mapped = FALSE, !.open = FALSE]
    /\ xqueue' = <<>>
    /\ UNCHANGED <<pc, handle, fatal, arrivals, event, frameSubmits, cfgVars,
                   pollVars, shows, acquired, closeSignals>>

\* Drop for X11Window: XDestroyWindow, then XCloseDisplay, which frees the
\* connection and the events still queued on it.
DropWindow ==
    /\ pc = "unwind"
    /\ locals # <<>>
    /\ Last(locals) = "window"
    /\ locals' = Front(locals)
    /\ callLog' = callLog \o <<"XDestroyWindow", "XCloseDisplay">>
    /\ xsrv' = [xsrv EXCEPT !.window = FALSE, !.mapped = FALSE, !.open = FALSE]
    /\ xqueue' = <<>>
    /\ UNCHANGED <<pc, handle, fatal, arrivals, event, frameSubmits, cfgVars,
                   pollVars, shows, acquired, closeSignals>>

\* Nothing is left to drop: the process ends.
ProcessExit ==
    /\ pc = "unwind"
    /\ locals = <<>>
    /\ pc' = "done"
    /\ UNCHANGED <<handle, locals, fatal, xsrv, xqueue, arrivals, event,
                   frameSubmits, cfgVars, pollVars, histVars>>

\* ------------------------------------------------------------- display server
\* The server queues an event for the window on the connection.
Arrive ==
    /\ xsrv.open
    /\ xsrv.window
    /\ arrivals < MaxArrivals
    /\ arrivals' = arrivals + 1
    /\ \E e \in ServerEvents : xqueue' = Append(xqueue, e)
    /\ arrivedInPoll' = (arrivedInPoll \/ pc = "poll")
    /\ UNCHANGED <<pc, handle, locals, fatal, xsrv, event, frameSubmits,
                   cfgVars, drained, queuedAtCall, polled, histVars>>

\* ------------------------------------------------------------- specifications
New == NewOpenDisplay \/ NewCreateWindow \/ NewStoreName \/ NewHookClose

Initialize == CreateSurface \/ RequestAdapter \/ RequestDevice \/ CreateShader \/ ConfigureSurface

Poll == PollCall \/ PollNext \/ PollReturn

Frame == AcquireFrame \/ CreateView \/ SubmitFrame \/ DropView \/ DropFrame

ScopeExit == DropLocal \/ DropWindow \/ ProcessExit

\* Every step of main's thread.
Program == New \/ Show \/ Initialize \/ Poll \/ MainCheck \/ Frame \/ ScopeExit

Next == Program \/ Arrive

Spec == Init /\ [][Next]_vars

\* The thread is the only one of the process and none of its calls blocks for
\* ever: a step that is possible is eventually taken.
FairSpec == Spec /\ WF_vars(Program)

\* The public API under any other caller.
NextOpen == New \/ Show \/ Poll \/ Return \/ DropWindow \/ ProcessExit \/ Arrive

SpecOpen == InitOpen /\ [][NextOpen]_vars

\* ------------------------------------------------------------- derived state
InitPcs == {"new_open", "new_create", "new_title", "new_atoms", "show", "surface",
            "adapter", "device", "shader", "pipeline"}

RunPcs == {"loop", "poll", "check", "acquire", "view", "submit", "drop_view", "drop_frame"}

\* The driver's state of spec section 4.2.
LoopState ==
    CASE pc \in InitPcs -> "Initializing"
      [] pc \in RunPcs  -> "Running"
      [] OTHER          -> IF fatal = "" THEN "ShuttingDown" ELSE "Aborted"

\* The X11Window value X11Window::new builds.
CreatedHandle ==
    [display |-> DisplayPtr, window |-> WindowId, screen |-> DefaultScreen,
     wm_protocols |-> XInternAtom("WM_PROTOCOLS"),
     wm_delete_window |-> XInternAtom("WM_DELETE_WINDOW")]

\* The events of the current poll call, in the order XNextEvent returned them.
DrainedEvents == [i \in 1..Len(drained) |-> drained[i].ev]

TypeOK ==
    /\ pc \in InitPcs \cup RunPcs \cup {"idle", "unwind", "done"}
    /\ caller \in {"main", "other"}
    /\ arrivals \in 0..MaxArrivals
    /\ Len(xqueue) <= MaxArrivals
    /\ event \in ServerEvents \cup {Uninit}
    /\ frameSubmits \in 0..1
    /\ shows \in 0..MaxShows
    /\ closeSignals \in 0..1

\* ------------------------------------------------------------- claims
\* The calls a teardown makes: the window, then the connection, once each.
Teardown == <<"XDestroyWindow", "XCloseDisplay">>

\* The close message as the claims describe it: a client message with the
\* registered message type and first data word.
IsCloseMessage(e) ==
    /\ e.type = "ClientMessage"
    /\ e.message_type = handle.wm_protocols
    /\ e.data0 = handle.wm_delete_window

CloseDrained == \E i \in 1..Len(drained) : IsCloseMessage(drained[i].ev)

\* The close check of the current iteration has run and kept the loop going.
KeptRunning == pc \in {"acquire", "view", "submit", "drop_view", "drop_frame", "loop"} /\ polled

\* The close check of the current iteration has run and broken the loop.
BrokeLoop == pc \in {"unwind", "done"} /\ fatal = "" /\ caller = "main"

InitFailed ==
    fatal \in {"Failed to find an appropriate adapter", "Failed to create device",
               "index out of bounds"}

AcquireFailed == fatal = "Failed to acquire next swap chain texture"

\* C1: after the close check of an iteration, the loop is ShuttingDown if and
\* only if some event drained in that iteration is a close message.
C1_CloseDetection ==
    /\ KeptRunning => ~CloseDrained
    /\ BrokeLoop => CloseDrained

\* C2: once the window handle exists, every way out of the program calls
\* XDestroyWindow and then XCloseDisplay, each exactly once: nothing is called
\* while the handle is owned, and at the end the log is exactly the teardown.
C2_ReleaseOrder ==
    /\ callLog \in {<<>>, Teardown}
    /\ Owns("window") => callLog = <<>>
    /\ (pc = "done" /\ handle # NoHandle) => callLog = Teardown

C2_Witness ==
    /\ pc = "done"
    /\ closeSignals = 1
    /\ acquired
    /\ callLog = Teardown

\* C3: X11Window::new given a title with a NUL byte does not crash, and leaves
\* no display connection open and no window created.
C3_InvalidTitle ==
    (CStringNewIsErr(title) /\ pc \notin {"new_open", "new_create", "new_title"}
        /\ fatal # "XOpenDisplay failed")
    => (fatal = "" /\ handle = NoHandle /\ ~xsrv.open /\ ~xsrv.window)

\* poll has just returned and no event was queued while it ran.
QuietPollDone == pc = "check" /\ ~arrivedInPoll /\ xqueue = <<>>

\* C4: poll never waits.  A call during which nothing arrives returns with the
\* queue empty, having retrieved exactly the events queued at the call; the
\* step poll takes on an empty queue is the return, and it touches neither
\* the buffer nor the queue; and every call returns.
C4_NonBlockingDrain ==
    /\ [][(pc = "poll" /\ pc' # "poll" /\ ~arrivedInPoll)
            => (xqueue = <<>> /\ DrainedEvents = queuedAtCall)]_vars
    /\ [][(pc = "poll" /\ xqueue = <<>> /\ pc' # pc)
            => (pc' = "check" /\ event' = event /\ drained' = drained /\ xqueue' = xqueue)]_vars
    /\ (pc = "poll" ~> pc = "check")

C4_Witness ==
    /\ QuietPollDone
    /\ Len(queuedAtCall) >= 2
    /\ DrainedEvents = queuedAtCall

\* C5: while the handle is live, whatever show and poll calls were made, its
\* five fields are those new gave it, the connection is not null, and the
\* server still has the connection, the window, its title and its protocols.
C5_HandleFrame ==
    Owns("window") =>
        /\ handle = CreatedHandle
        /\ handle.display # NullDisplay
        /\ xsrv.open /\ xsrv.window
        /\ xsrv.name = title
        /\ xsrv.protocols = {XInternAtom("WM_DELETE_WINDOW")}

C5_Witness ==
    /\ caller = "other"
    /\ pc = "idle"
    /\ Owns("window")
    /\ shows >= 2
    /\ Len(drained) >= 2

\* Scenario A: the poll call found exactly the WM's close message queued.
ScenarioA == polled /\ queuedAtCall = <<CloseEv>> /\ ~arrivedInPoll

\* C6: in scenario A the close check breaks the loop on the spot, once, and
\* the program ends with the teardown calls in order, once each.
C6_ScenarioA ==
    ScenarioA =>
        /\ pc \in {"poll", "check", "unwind", "done"}
        /\ fatal = ""
        /\ pc \in {"unwind", "done"} => closeSignals = 1
        /\ pc = "done" => callLog = Teardown

C6_Witness ==
    /\ ScenarioA
    /\ pc = "done"
    /\ shows = 1
    /\ callLog = Teardown

\* Scenario B: the poll call retrieved one or more events that are no close
\* message, then the WM's close message, and nothing after it.
ScenarioB ==
    /\ Len(drained) >= 2
    /\ drained[Len(drained)].ev = CloseEv
    /\ \A i \in 1..(Len(drained) - 1) : ~IsCloseMessage(drained[i].ev)
    /\ pc # "poll"

\* Only events that are no close message have been retrieved in this call.
OnlyUnrelated ==
    /\ drained # <<>>
    /\ ~CloseDrained

\* C7: in scenario B the close check breaks the loop, exactly once; events
\* that are no close message leave the handle as it was, start no frame while
\* they are drained and never break the loop.
C7_ScenarioB ==
    /\ ScenarioB =>
        /\ pc \in {"check", "unwind", "done"}
        /\ fatal = ""
        /\ pc \in {"unwind", "done"} => closeSignals = 1
    /\ OnlyUnrelated =>
        /\ handle = CreatedHandle
        /\ pc \in {"poll", "check"} => (~Owns("frame") /\ closeSignals = 0)
        /\ ~BrokeLoop

C7_Witness ==
    /\ ScenarioB
    /\ Len(drained) = MaxArrivals
    /\ pc = "done"
    /\ closeSignals = 1

\* C8: after a failure of the Initializing phase no poll call and no frame
\* acquisition has happened or happens, the process ends, and it ends with
\* the window destroyed and the connection closed.
C8_InitFailure ==
    /\ [](InitFailed =>
            /\ ~polled /\ ~acquired
            /\ pc \in {"unwind", "done"}
            /\ pc = "done" => callLog = Teardown)
    /\ (InitFailed ~> pc = "done")

C8_Witness ==
    /\ pc = "done"
    /\ fatal = "Failed to create device"
    /\ callLog = Teardown

\* C9: after a failed frame acquisition no step retrieves an event, acquires a
\* frame or submits a command buffer, the thread only unwinds, and the
\* process ends with the teardown calls in order, once each.
C9_AcquireFatal ==
    /\ [][AcquireFailed =>
            /\ pc' \in {"unwind", "done"}
            /\ drained' = drained /\ event' = event
            /\ acquired' = acquired /\ frameSubmits' = frameSubmits
            /\ fatal' = fatal]_vars
    /\ [](AcquireFailed => (pc \in {"unwind", "done"} /\ ~Owns("frame")))
    /\ []((AcquireFailed /\ pc = "done") => callLog = Teardown)
    /\ (AcquireFailed ~> pc = "done")

C9_Witness ==
    /\ AcquireFailed
    /\ acquired
    /\ pc = "done"
    /\ callLog = Teardown

\* A close message is queued on the connection.
CloseQueued == \E i \in 1..Len(xqueue) : xqueue[i] = CloseEv

\* C10: a close message that is queued leads to ShuttingDown, unless a fatal
\* error ends the program first.
C10_CloseLeadsToShutdown ==
    CloseQueued ~> (LoopState = "ShuttingDown" \/ fatal # "")

\* The close check has broken the loop.
CloseObserved == closeSignals >= 1

\* C11: within the loop the thread reaches the close check only from poll, a
\* frame acquisition only from a close check, and a poll call only from the
\* top of the loop; once the close check has broken the loop the thread only
\* unwinds: no event is retrieved, no frame acquired, no command buffer
\* submitted.
C11_IterationOrder ==
    /\ [][/\ (pc' = "check" /\ pc # "check") => pc = "poll"
          /\ (pc' = "acquire" /\ pc # "acquire") => pc = "check"
          /\ (pc' = "view" /\ pc # "view") => pc = "acquire"
          /\ (pc' = "poll" /\ pc # "poll") => pc = "loop"
          /\ (pc' = "loop" /\ pc # "loop") => pc \in {"pipeline", "drop_frame"}]_vars
    /\ [][CloseObserved =>
            /\ pc' \in {"unwind", "done"}
            /\ drained' = drained /\ event' = event
            /\ acquired' = acquired /\ frameSubmits' = frameSubmits
            /\ closeSignals' = closeSignals]_vars
    /\ [](CloseObserved =>
            (pc \in {"unwind", "done"} /\ ~Owns("frame") /\ ~Owns("view")))

C11_Witness ==
    /\ CloseObserved
    /\ acquired
    /\ pc = "done"
    /\ Len(drained) = 1

\* A close message of the current poll call that XFilterEvent left to the
\* application.
UnfilteredCloseDrained ==
    \E i \in 1..Len(drained) : ~drained[i].filtered /\ IsCloseMessage(drained[i].ev)

\* C12: an event the input-method filter consumed takes no part in the close
\* decision: when the poll call retrieved events and the check broke the
\* loop, one of them is a close message the filter did not consume.
C12_FilteredDiscarded ==
    (BrokeLoop /\ drained # <<>>) => UnfilteredCloseDrained

\* C13: the close decision rests on the events of the iteration's own poll
\* call only: the check never breaks the loop after a call that retrieved
\* nothing.
C13_FreshSignal ==
    BrokeLoop => drained # <<>>

\* How many locals named x are alive.
Held(x) == Len(SelectSeq(locals, LAMBDA y : y = x))

\* C14: at most one frame and one view are alive; none is while the thread
\* is at the top of the loop, in poll or at the close check; a frame gets its
\* one command buffer before anything of it is dropped; the view is dropped
\* first, the frame next, and only then does the loop go round.
C14_FrameLifecycle ==
    /\ [](/\ Held("frame") <= 1 /\ Held("view") <= 1
          /\ pc \in {"loop", "poll", "check", "acquire"} => (~Owns("frame") /\ ~Owns("view"))
          /\ pc \in {"view", "submit"} => (Owns("frame") /\ frameSubmits = 0)
          /\ pc = "drop_view" => (Owns("frame") /\ Owns("view") /\ frameSubmits = 1)
          /\ pc = "drop_frame" => (Owns("frame") /\ ~Owns("view") /\ frameSubmits = 1)
          /\ (pc = "loop" /\ acquired) => frameSubmits = 1)
    /\ [][(Held("frame")' < Held("frame")) => (frameSubmits = 1 /\ ~Owns("view") /\ pc' = "loop")]_vars
    /\ [][(pc' = "poll" /\ pc # "poll") => (~Owns("frame") /\ ~Owns("view"))]_vars

C14_Witness ==
    /\ pc = "poll"
    /\ acquired
    /\ frameSubmits = 1
    /\ ~Owns("frame")
    /\ drained # <<>>

\* The window's WM_PROTOCOLS property lists the delete-window atom.
CloseProtocolRegistered == xsrv.protocols = {XInternAtom("WM_DELETE_WINDOW")}

\* C15: the close protocol is registered before new returns: whenever the
\* handle exists, the window is mapped or a poll call has been made, the
\* registration is in place, and show and poll are reached only after it.
C15_RegisteredBeforeUse ==
    /\ (handle # NoHandle \/ xsrv.mapped \/ shows > 0 \/ polled) => CloseProtocolRegistered
    /\ pc \in {"show", "idle", "loop", "poll"} => CloseProtocolRegistered
    /\ ~CloseProtocolRegistered => pc \in {"new_open", "new_create", "new_title", "new_atoms", "unwind", "done"}

C15_Witness ==
    /\ pc = "poll"
    /\ xsrv.mapped
    /\ drained # <<>>
    /\ CloseProtocolRegistered

\* The locals of main that own a GPU object.
GpuLocals ==
    {"instance", "surface", "adapter", "device", "queue", "shader",
     "pipeline_layout", "render_pipeline", "frame", "view"}

GpuLive == \E i \in 1..Len(locals) : locals[i] \in GpuLocals

\* C16: the window goes last.  While any GPU object of main is alive the
\* window and the connection are, the teardown calls are made in a state
\* where the window is the only local left, and after them no GPU object is
\* alive.
C16_GpuBeforeWindow ==
    /\ [](GpuLive => (Owns("window") /\ xsrv.window /\ xsrv.open /\ callLog = <<>>))
    /\ [](callLog # <<>> => ~GpuLive)
    /\ [][callLog' # callLog => (locals = <<"window">> /\ locals' = <<>>)]_vars

C16_Witness ==
    /\ pc = "unwind"
    /\ locals = <<"window">>
    /\ acquired
    /\ callLog = <<>>

====
